---- MODULE Spec2Model ----
(***************************************************************************)
(* State-machine model of run.go, the interactive JMeter starter.          *)
(*                                                                         *)
(* Text is modelled as a sequence of one-character strings.  A fixed       *)
(* literal that the program never splits (a directory name, the text of a  *)
(* log message, a formatted timestamp) is one element of such a sequence.  *)
(* The Chinese literals of the source are written as ASCII tags; the tag   *)
(* table is next to the message definitions.                               *)
(*                                                                         *)
(* The program is sequential.  pc names the statement of main or of        *)
(* runJMeter that comes next, and todo holds the messages that the         *)
(* function being executed hands to writeLog before it goes on, one        *)
(* writeLog call per step: the file system can change between two calls    *)
(* (the operator at a prompt and jmeter take their time), and each call    *)
(* can fail on its own.                                                    *)
(***************************************************************************)
EXTENDS Integers, Sequences, FiniteSets, TLC

\* ------------------------------------------------------------------ bounds
\* How many I/O failures (mkdir, open, write) the environment injects in a run.
MaxIOFailures == 1
\* How many times the Debug directory is removed from outside in a run.
MaxEnvRemovals == 1
\* How many writeLog calls the logger-only runs make.
MaxCalls == 3

\* ------------------------------------------------------- strings (package strings)
Space == " "
NL == "\n"

IsSpace(c) == c = Space \/ c = NL

RECURSIVE TrimLeft(_)
TrimLeft(s) ==
    IF s # << >> /\ IsSpace(Head(s)) THEN TrimLeft(Tail(s)) ELSE s

RECURSIVE TrimRight(_)
TrimRight(s) ==
    IF s # << >> /\ IsSpace(s[Len(s)])
    THEN TrimRight(SubSeq(s, 1, Len(s) - 1))
    ELSE s

\* strings.TrimSpace
TrimSpace(s) == TrimRight(TrimLeft(s))

\* strings.HasSuffix
HasSuffix(s, suf) ==
    /\ Len(s) >= Len(suf)
    /\ SubSeq(s, Len(s) - Len(suf) + 1, Len(s)) = suf

IsPrefix(p, s) ==
    /\ Len(p) <= Len(s)
    /\ SubSeq(s, 1, Len(p)) = p

ExtJtl == <<".", "j", "t", "l">>
ExtLog == <<".", "l", "o", "g">>
ExtJmx == <<".", "j", "m", "x">>

\* ------------------------------------------------------- strconv
DigitVal(c) ==
    CASE c = "0" -> 0 [] c = "1" -> 1 [] c = "2" -> 2 [] c = "3" -> 3
      [] c = "4" -> 4 [] c = "5" -> 5 [] c = "6" -> 6 [] c = "7" -> 7
      [] c = "8" -> 8 [] c = "9" -> 9 [] OTHER -> -1

IsDigit(c) == DigitVal(c) >= 0

RECURSIVE DigitsValue(_, _)
DigitsValue(s, acc) ==
    IF s = << >> THEN acc
    ELSE DigitsValue(Tail(s), acc * 10 + DigitVal(Head(s)))

\* strconv.Atoi: an optional sign, then one or more decimal digits, nothing
\* else.  The result is [ok, val].
Atoi(s) ==
    LET signed == s # << >> /\ Head(s) \in {"+", "-"}
        digits == IF signed THEN Tail(s) ELSE s
        good == digits # << >> /\ \A i \in 1..Len(digits) : IsDigit(digits[i])
        mag == IF good THEN DigitsValue(digits, 0) ELSE 0
    IN  [ok |-> good,
         val |-> IF signed /\ Head(s) = "-" THEN 0 - mag ELSE mag]

DigitChar(d) ==
    CASE d = 0 -> "0" [] d = 1 -> "1" [] d = 2 -> "2" [] d = 3 -> "3"
      [] d = 4 -> "4" [] d = 5 -> "5" [] d = 6 -> "6" [] d = 7 -> "7"
      [] d = 8 -> "8" [] OTHER -> "9"

RECURSIVE NatStr(_)
NatStr(n) ==
    IF n < 10 THEN <<DigitChar(n)>>
    ELSE Append(NatStr(n \div 10), DigitChar(n % 10))

\* fmt's %d
FmtInt(n) == IF n < 0 THEN <<"-">> \o NatStr(0 - n) ELSE NatStr(n)

\* ------------------------------------------------------- path/filepath
Slash == "/"

\* The elements of a path: the pieces between separators.
RECURSIVE SplitPath(_, _, _)
SplitPath(s, cur, acc) ==
    IF s = << >> THEN Append(acc, cur)
    ELSE IF Head(s) = Slash THEN SplitPath(Tail(s), << >>, Append(acc, cur))
    ELSE SplitPath(Tail(s), Append(cur, Head(s)), acc)

Dot == <<".">>
DotDot == <<".", ".">>

\* filepath.Clean on the elements of a relative path: empty and "." elements
\* are dropped, ".." removes the element before it when there is one that is
\* not itself "..".
RECURSIVE CleanElems(_, _)
CleanElems(elems, out) ==
    IF elems = << >> THEN out
    ELSE LET e == Head(elems)
             rest == Tail(elems)
         IN  IF e = << >> \/ e = Dot THEN CleanElems(rest, out)
             ELSE IF e = DotDot
             THEN IF out # << >> /\ out[Len(out)] # DotDot
                  THEN CleanElems(rest, SubSeq(out, 1, Len(out) - 1))
                  ELSE CleanElems(rest, Append(out, e))
             ELSE CleanElems(rest, Append(out, e))

RECURSIVE JoinElems(_)
JoinElems(elems) ==
    IF elems = << >> THEN << >>
    ELSE IF Len(elems) = 1 THEN Head(elems)
    ELSE Head(elems) \o <<Slash>> \o JoinElems(Tail(elems))

Clean(p) ==
    LET c == CleanElems(SplitPath(p, << >>, << >>), << >>)
    IN  IF c = << >> THEN Dot ELSE JoinElems(c)

\* filepath.Join(dir, name) for a non-empty relative dir
Join(dir, name) == Clean(dir \o <<Slash>> \o name)

\* ------------------------------------------------------- globals (run.go 18-23)
reportDir == <<"Reporter">>
jtlDir == <<"Jtl">>
debugDir == <<"Debug">>
logFile == Join(debugDir, <<"pmeter.log">>)

\* ------------------------------------------------------- fmt.Scanln(&s)
\* One string operand, reading from an unbuffered byte stream (os.Stdin).
\* Leading blanks are skipped; a newline met before any token is consumed
\* and the operand keeps its zero value; otherwise the token runs up to the
\* next white space.  After the operand, blanks are consumed up to and
\* including the newline, or up to and including the first other character
\* (the "expected newline" error, which the callers ignore).
RECURSIVE SkipBlanks(_)
SkipBlanks(s) ==
    IF s # << >> /\ Head(s) = Space THEN SkipBlanks(Tail(s)) ELSE s

RECURSIVE TokenLen(_)
TokenLen(s) ==
    IF s = << >> \/ IsSpace(Head(s)) THEN 0 ELSE 1 + TokenLen(Tail(s))

Scanln(input) ==
    LET s1 == SkipBlanks(input)
    IN  IF s1 = << >> THEN [tok |-> << >>, rest |-> << >>]
        ELSE IF Head(s1) = NL THEN [tok |-> << >>, rest |-> Tail(s1)]
        ELSE LET n == TokenLen(s1)
                 after == SkipBlanks(SubSeq(s1, n + 1, Len(s1)))
             IN  [tok |-> SubSeq(s1, 1, n),
                  rest |-> IF after = << >> THEN << >> ELSE Tail(after)]

\* ------------------------------------------------------- time
\* time.Now().Format("2006-01-02 15:04:05"), used by writeLog
LogStamp == "YYYY-MM-DD hh:mm:ss"
\* time.Now().Format("20060102_150405")
getTimestamp == <<"YYYYMMDD_hhmmss">>
\* the %.2f rendering of the elapsed seconds
Elapsed == "d.dd"

\* ------------------------------------------------------- log messages
\* tag                      source literal
\* read_dir_failed          读取目录失败:
\* no_jmx_exit              未找到 .jmx 文件，程序退出。
\* invalid_file_number      无效的文件编号输入：%s，程序退出。
\* cmd_begin                开始执行命令：
\* cmd_failed               命令执行失败，耗时 %.2f 秒。错误: %v
\* cmd_ok                   命令执行成功，耗时 %.2f 秒。
\* read_jmx_failed          读取JMX文件失败: %v
\* parse_xml_failed         解析XML失败: %v
\* no_thread_count          未找到线程数配置
\* atoi_thread_failed       转换线程数失败: %v
\* stat_header              (a rule of equals signs around the block title) 测试统计信息
\* threads / error_pct / throughput / mean_res / samples / errors
\*                          线程数 / 报错率 / 吞吐量 / 响应时间 / 总请求数 / 总错误数
\* stat_footer              (a rule of equals signs)
\* parse_stat_failed        解析统计数据失败: %v
ErrText == "<err>"
MsgReadDirFailed == <<"read_dir_failed: ", ErrText>>
MsgNoJmx == <<"no_jmx_exit">>
MsgInvalidChoice(choice) == <<"invalid_file_number: ">> \o choice \o <<", exit">>
MsgCmdBegin == <<"cmd_begin">>
MsgCmdFailed == <<"cmd_failed, took ", Elapsed, " s. error: ", ErrText>>
MsgCmdOk == <<"cmd_ok, took ", Elapsed, " s.">>
MsgReadJmxFailed == <<"read_jmx_failed: ", ErrText>>
MsgParseXmlFailed == <<"parse_xml_failed: ", ErrText>>
MsgNoThreadCount == <<"no_thread_count">>
MsgAtoiThreadFailed == <<"atoi_thread_failed: ", ErrText>>
MsgStatHeader == <<"stat_header">>
MsgStatFooter == <<"stat_footer">>
MsgParseStatFailed == <<"parse_stat_failed: ", ErrText>>

\* fmt's %.2f of a value held in hundredths
FmtFloat2(h) ==
    NatStr(h \div 100) \o <<".", DigitChar((h % 100) \div 10), DigitChar(h % 10)>>

MsgThreads(n) == <<"threads: ">> \o FmtInt(n)
MsgErrorPct(h) == <<"error_pct: ">> \o FmtFloat2(h) \o <<"%">>
MsgThroughput(h) == <<"throughput: ">> \o FmtFloat2(h)
MsgMeanRes(h) == <<"mean_res: ">> \o FmtFloat2(h) \o <<" ms">>
MsgSamples(n) == <<"samples: ">> \o FmtInt(n)
MsgErrors(n) == <<"errors: ">> \o FmtInt(n)

\* fmt.Sprintf("[%s] %s\n", timestamp, msg)
LogEntry(msg) == <<"[", LogStamp, "] ">> \o msg \o <<NL>>

\* ------------------------------------------------------- inputs
\* The lines an operator may type at a prompt (without the newline): a
\* short repertoire for the runs with I/O faults, a wider one for the runs
\* that study the prompts.
FewLines == { << >>, <<"1">> }

Lines ==
    { << >>,
      <<"1">>,
      <<"2">>,
      <<"x">>,
      <<"1", " ", "x", "a">>,
      <<"a", ".", "j", "t", "l">>,
      <<".", ".", "/", "a">> }

\* What the working directory may hold, in the name order of ioutil.ReadDir.
DirEntries ==
    << [name |-> <<"Debug">>, isDir |-> TRUE],
       [name |-> <<"a">> \o ExtJmx, isDir |-> FALSE],
       [name |-> <<"b">> \o ExtJmx, isDir |-> FALSE],
       [name |-> <<"c">> \o ExtJmx, isDir |-> TRUE],
       [name |-> <<"d", ".", "t", "x", "t">>, isDir |-> FALSE] >>

RECURSIVE Pick(_, _, _)
Pick(seq, keep, i) ==
    IF i > Len(seq) THEN << >>
    ELSE (IF i \in keep THEN <<seq[i]>> ELSE << >>) \o Pick(seq, keep, i + 1)

\* Working directories: empty; no regular .jmx file; one; the other; all entries.
Listings ==
    { Pick(DirEntries, keep, 1) : keep \in {{}, {1, 4, 5}, {1, 2, 5}, {3, 4}, {1, 2, 3, 4, 5}} }
FewListings == { Pick(DirEntries, keep, 1) : keep \in {{1, 4, 5}, {1, 2, 4, 5}} }

\* What ioutil.ReadFile + xmlquery find in the selected test plan.
JmxDocs ==
    { [state |-> "unreadable", text |-> << >>],
      [state |-> "bad_xml", text |-> << >>],
      [state |-> "no_node", text |-> << >>],
      [state |-> "node", text |-> <<"7">>],
      [state |-> "node", text |-> <<"x">>] }

\* A JSON value: an integer literal, a literal with a fraction, or a string.
\* Numbers are held in hundredths.
JInt(n) == [t |-> "int", h |-> n * 100]
JFrac(h) == [t |-> "frac", h |-> h]
JStr == [t |-> "str", h |-> 0]

StatKeys == {"sampleCount", "errorPct", "meanResTime", "throughput", "errorCount"}

GoodTotal ==
    [sampleCount |-> JInt(9), errorPct |-> JFrac(250), meanResTime |-> JFrac(1234),
     throughput |-> JInt(5), errorCount |-> JInt(2)]

\* What ioutil.ReadFile finds at <reportFolder>/statistics.json.
StatDocs ==
    { [state |-> "missing", hasTotal |-> FALSE, total |-> << >>],
      [state |-> "malformed", hasTotal |-> FALSE, total |-> << >>],
      [state |-> "json", hasTotal |-> FALSE, total |-> << >>],
      [state |-> "json", hasTotal |-> TRUE, total |-> GoodTotal],
      [state |-> "json", hasTotal |-> TRUE,
       total |-> [GoodTotal EXCEPT !.sampleCount = JFrac(150)]],
      [state |-> "json", hasTotal |-> TRUE,
       total |-> [GoodTotal EXCEPT !.throughput = JStr]],
      [state |-> "json", hasTotal |-> TRUE,
       total |-> [k \in StatKeys \ {"errorCount"} |-> GoodTotal[k]]] }

\* ------------------------------------------------------- state
VARIABLES
    pc,           \* the statement of main (or of runJMeter) to execute next
    todo,         \* messages of the current function still to be handed to writeLog
    exitCode,     \* -1 while running, then the process exit status
    fatalIn,      \* the function inside which the process was terminated, or "none"
    fs,           \* kind of each path: "absent", "dir" or "file"
    logfile,      \* content of Debug/pmeter.log
    calls,        \* every message writeLog was called with, in order
    logOutcome,   \* how the latest writeLog call ended
    faults,       \* I/O failures the environment may still inject
    removals,     \* outside removals of the Debug directory still to come
    lines,        \* the lines the operator may type
    dir,          \* the entries of the working directory, in name order
    stdin,        \* bytes of standard input typed but not yet read
    typed,        \* the lines typed so far
    offered,      \* per prompt: what stood on standard input in front of it
    answers,      \* per prompt: the value the prompt went on with
    steps,        \* the steps of main taken so far
    jmxFiles, jmxFile, resultFile, reportFolder, debugFile,
    launched,     \* how many times cmd.Run was called
    runErr,       \* "none", or the error of cmd.Run
    jmxDoc, threadCount,
    statDoc, stats, statsErr

vars ==
    <<pc, todo, exitCode, fatalIn, fs, logfile, calls, logOutcome, faults,
      removals, lines, dir, stdin, typed, offered, answers, steps, jmxFiles, jmxFile,
      resultFile, reportFolder, debugFile, launched, runErr, jmxDoc,
      threadCount, statDoc, stats, statsErr>>

progVars ==
    <<jmxFiles, jmxFile, resultFile, reportFolder, debugFile, launched, runErr,
      jmxDoc, threadCount, statDoc, stats, statsErr>>
inputVars == <<lines, dir, stdin, typed, offered, answers>>
logVars == <<logfile, calls, logOutcome>>

Kinds == {"absent", "dir", "file"}
\* "folder" stands for the report folder the operator names.
Paths == {"Reporter", "Jtl", "Debug", "folder"}
NoDoc == [state |-> "none"]
Running == exitCode = -1

\* A log line left by an earlier run of the tool.
OldLog == LogEntry(MsgCmdBegin)

\* The state main starts in, whatever the working directory holds.
Start ==
    /\ todo = << >>
    /\ exitCode = -1
    /\ fatalIn = "none"
    /\ calls = << >>
    /\ logOutcome = "none"
    /\ stdin = << >>
    /\ typed = << >>
    /\ offered = << >>
    /\ answers = << >>
    /\ steps = << >>
    /\ jmxFiles = << >>
    /\ jmxFile = << >>
    /\ resultFile = << >>
    /\ reportFolder = << >>
    /\ debugFile = << >>
    /\ launched = 0
    /\ runErr = "none"
    /\ jmxDoc = NoDoc
    /\ threadCount = 0
    /\ statDoc = NoDoc
    /\ stats = << >>
    /\ statsErr = "none"

\* A run in an environment that injects I/O failures and removes the Debug
\* directory, in front of an operator with a short repertoire.  Reporter and
\* Jtl are absent or directories (ensureDir leaves a file in their place as
\* it is, and nothing else looks at them); Debug and the report folder may
\* also be regular files.
Init ==
    /\ Start
    /\ pc = "ensureReport"
    /\ fs \in { f \in [Paths -> Kinds] : f["Reporter"] # "file" /\ f["Jtl"] # "file" }
    /\ logfile \in (IF fs["Debug"] = "dir" THEN {<< >>, OldLog} ELSE {<< >>})
    /\ faults = MaxIOFailures
    /\ removals = MaxEnvRemovals
    /\ lines = FewLines
    /\ dir \in FewListings

\* A run in a quiet environment (the directories exist, nothing fails), in
\* front of an operator with the wide repertoire.
InitInput ==
    /\ Start
    /\ pc = "ensureReport"
    /\ fs = [p \in Paths |-> "dir"]
    /\ logfile = << >>
    /\ faults = 0
    /\ removals = 0
    /\ lines = Lines
    /\ dir \in Listings

\* ------------------------------------------------------- ensureDir (25-31)
\* os.Stat reports IsNotExist exactly for an absent path; only then is
\* os.MkdirAll called, and its failure is log.Fatalf.  A path that exists is
\* left alone, whatever it is.  The result is [fatal, kind].
EnsureDirResult(kind, mkdirOk) ==
    IF kind = "absent"
    THEN IF mkdirOk THEN [fatal |-> FALSE, kind |-> "dir"]
         ELSE [fatal |-> TRUE, kind |-> "absent"]
    ELSE [fatal |-> FALSE, kind |-> kind]

\* Whether a failure may be injected here, and the budget after this step.
MayFail == faults > 0
Injected(failed) == IF failed THEN faults - 1 ELSE faults

\* log.Fatalf / os.Exit(1)
Die(where) ==
    /\ pc' = "exited"
    /\ todo' = << >>
    /\ exitCode' = 1
    /\ fatalIn' = where

\* ------------------------------------------------------- writeLog (33-48)
\* The file opened for writing with O_TRUNC instead of O_APPEND.
TruncWrite(content, entry, n) == SubSeq(entry, 1, n)

\* os.OpenFile(logFile, O_APPEND|O_CREATE|O_WRONLY) then file.WriteString:
\* the content after writing the first n bytes of entry.
AppendWrite(content, entry, n) == content \o SubSeq(entry, 1, n)

\* Where a failing write may stop: before the first byte, after it, or
\* before the final newline.
ShortWrites(entry) == {0, 1, Len(entry) - 1}

\* One call writeLog(Head(todo)).  ensureDir(debugDir) may end the process;
\* a failed open (Debug is not a directory, or an injected failure) and a
\* failed write are reported on the console and the call returns.
writeLog ==
    /\ Running
    /\ todo # << >>
    /\ LET msg == Head(todo)
           entry == LogEntry(msg)
       IN
       /\ calls' = Append(calls, msg)
       /\ \E mkdirOk \in BOOLEAN, openOk \in BOOLEAN,
             n \in ShortWrites(entry) \cup {Len(entry)} :
            LET made == EnsureDirResult(fs["Debug"], mkdirOk)
                isDir == ~made.fatal /\ made.kind = "dir"
                opened == isDir /\ openOk
                short == opened /\ n < Len(entry)
                failed == made.fatal \/ (isDir /\ ~openOk) \/ short
            IN
            \* the outcomes that do not apply are fixed, so that each
            \* behaviour of the call is chosen once
            /\ fs["Debug"] = "absent" \/ mkdirOk
            /\ isDir \/ openOk
            /\ opened \/ n = Len(entry)
            /\ failed => MayFail
            /\ faults' = Injected(failed)
            /\ fs' = [fs EXCEPT !["Debug"] = made.kind]
            /\ IF made.fatal
               THEN /\ Die("writeLog")
                    /\ logOutcome' = "fatal"
                    /\ logfile' = logfile
               ELSE /\ pc' = pc
                    /\ todo' = Tail(todo)
                    /\ exitCode' = exitCode
                    /\ fatalIn' = fatalIn
                    /\ IF ~opened
                       THEN /\ logOutcome' = "open_failed"
                            /\ logfile' = logfile
                       ELSE /\ logOutcome' = IF short THEN "write_failed" ELSE "ok"
                            /\ logfile' = AppendWrite(logfile, entry, n)
    /\ UNCHANGED <<removals, inputVars, steps, progVars>>

\* The Debug directory is removed from outside while the tool waits (for the
\* operator at a prompt, or for jmeter); pmeter.log goes with it.
EnvRemoveDebug ==
    /\ Running
    /\ fs["Debug"] = "dir"
    /\ removals > 0
    /\ removals' = removals - 1
    /\ fs' = [fs EXCEPT !["Debug"] = "absent"]
    /\ logfile' = << >>
    /\ UNCHANGED <<pc, todo, exitCode, fatalIn, calls, logOutcome, faults,
                   inputVars, steps, progVars>>

\* ------------------------------------------------------- main (254-257)
EnsurePath == [ensureReport |-> "Reporter", ensureJtl |-> "Jtl", ensureDebug |-> "Debug"]
EnsureNext == [ensureReport |-> "ensureJtl", ensureJtl |-> "ensureDebug", ensureDebug |-> "list"]

MainEnsureDir ==
    /\ Running
    /\ pc \in DOMAIN EnsurePath
    /\ \E mkdirOk \in BOOLEAN :
         LET path == EnsurePath[pc]
             made == EnsureDirResult(fs[path], mkdirOk)
         IN
         /\ fs[path] = "absent" \/ mkdirOk
         /\ made.fatal => MayFail
         /\ faults' = Injected(made.fatal)
         /\ fs' = [fs EXCEPT ![path] = made.kind]
         /\ steps' = Append(steps, pc)
         /\ IF made.fatal
            THEN Die("ensureDir")
            ELSE /\ pc' = EnsureNext[pc]
                 /\ UNCHANGED <<todo, exitCode, fatalIn>>
    /\ UNCHANGED <<logVars, removals, inputVars, progVars>>

\* ------------------------------------------------------- listJMXFiles (50-77)
RECURSIVE FilterJmx(_)
FilterJmx(entries) ==
    IF entries = << >> THEN << >>
    ELSE LET e == Head(entries)
         IN  (IF ~e.isDir /\ HasSuffix(e.name, ExtJmx) THEN <<e.name>> ELSE << >>)
             \o FilterJmx(Tail(entries))

listJMXFiles ==
    /\ Running
    /\ pc = "list"
    /\ steps' = Append(steps, "list")
    /\ \E readOk \in BOOLEAN :
         LET found == FilterJmx(dir)
         IN  /\ ~readOk => MayFail
             /\ faults' = Injected(~readOk)
             /\ IF ~readOk
                THEN /\ todo' = <<MsgReadDirFailed>>
                     /\ pc' = "list_exit"
                     /\ jmxFiles' = jmxFiles
                ELSE IF found = << >>
                THEN /\ todo' = <<MsgNoJmx>>
                     /\ pc' = "list_exit"
                     /\ jmxFiles' = found
                ELSE /\ todo' = << >>
                     /\ pc' = "select"
                     /\ jmxFiles' = found
    /\ UNCHANGED <<exitCode, fatalIn, fs, logVars, removals, inputVars,
                   jmxFile, resultFile, reportFolder, debugFile, launched, runErr,
                   jmxDoc, threadCount, statDoc, stats, statsErr>>

\* os.Exit(1) once the condition was handed to writeLog (55, 68, 88)
osExit ==
    /\ Running
    /\ pc \in {"list_exit", "select_exit"}
    /\ todo = << >>
    /\ Die(IF pc = "list_exit" THEN "listJMXFiles" ELSE "selectJMXFile")
    /\ UNCHANGED <<fs, logVars, faults, removals, inputVars, steps, progVars>>

\* ------------------------------------------------------- the prompts
\* What a prompt finds on standard input: what an earlier prompt left unread,
\* or else the line the operator types now.
PromptInputs == IF stdin = << >> THEN { l \o <<NL>> : l \in lines } ELSE {stdin}

\* The bookkeeping of one Scanln call that read `input` and kept `value`.
Consume(input, value) ==
    /\ stdin' = Scanln(input).rest
    /\ typed' = IF stdin = << >>
                THEN Append(typed, SubSeq(input, 1, Len(input) - 1))
                ELSE typed
    /\ offered' = Append(offered, input)
    /\ answers' = Append(answers, value)
    /\ UNCHANGED <<lines, dir>>

\* selectJMXFile (79-92)
selectJMXFile ==
    /\ Running
    /\ pc = "select"
    /\ todo = << >>
    /\ steps' = Append(steps, "select")
    /\ \E input \in PromptInputs :
         LET choice == Scanln(input).tok
             index == Atoi(choice)
         IN
         /\ Consume(input, choice)
         /\ IF ~index.ok \/ index.val < 1 \/ index.val > Len(jmxFiles)
            THEN /\ todo' = <<MsgInvalidChoice(choice)>>
                 /\ pc' = "select_exit"
                 /\ jmxFile' = jmxFile
            ELSE /\ todo' = << >>
                 /\ pc' = "result"
                 /\ jmxFile' = jmxFiles[index.val]
    /\ UNCHANGED <<exitCode, fatalIn, fs, logVars, faults, removals,
                   jmxFiles, resultFile, reportFolder, debugFile, launched, runErr,
                   jmxDoc, threadCount, statDoc, stats, statsErr>>

\* The name rule shared by getResultFilename and getRDebugFilename: a blank
\* name becomes <stem><timestamp><ext>, any other name gets ext unless it
\* already ends in it.
SuffixedName(name, stem, ext) ==
    IF name = << >> THEN stem \o getTimestamp \o ext
    ELSE IF ~HasSuffix(name, ext) THEN name \o ext
    ELSE name

\* getResultFilename (98-113), from the scanned token
ResultFilename(tok) ==
    Join(jtlDir, SuffixedName(TrimSpace(tok), <<"result_">>, ExtJtl))

getResultFilename ==
    /\ Running
    /\ pc = "result"
    /\ todo = << >>
    /\ steps' = Append(steps, "result")
    /\ \E input \in PromptInputs :
         LET tok == Scanln(input).tok
         IN  /\ Consume(input, TrimSpace(tok))
             /\ resultFile' = ResultFilename(tok)
    /\ pc' = "report"
    /\ UNCHANGED <<todo, exitCode, fatalIn, fs, logVars, faults, removals,
                   jmxFiles, jmxFile, reportFolder, debugFile, launched, runErr,
                   jmxDoc, threadCount, statDoc, stats, statsErr>>

\* getReportFolder (115-132), from the scanned token
ReportFolder(tok) ==
    LET folder == TrimSpace(tok)
    IN  Join(reportDir, IF folder = << >> THEN <<"report_">> \o getTimestamp ELSE folder)

getReportFolder ==
    /\ Running
    /\ pc = "report"
    /\ todo = << >>
    /\ steps' = Append(steps, "report")
    /\ \E input \in PromptInputs, mkdirOk \in BOOLEAN :
         LET tok == Scanln(input).tok
             made == EnsureDirResult(fs["folder"], mkdirOk)
         IN
         /\ Consume(input, TrimSpace(tok))
         /\ fs["folder"] = "absent" \/ mkdirOk
         /\ made.fatal => MayFail
         /\ faults' = Injected(made.fatal)
         /\ fs' = [fs EXCEPT !["folder"] = made.kind]
         /\ IF made.fatal
            THEN /\ Die("ensureDir")
                 /\ reportFolder' = reportFolder
            ELSE /\ pc' = "debug"
                 /\ reportFolder' = ReportFolder(tok)
                 /\ UNCHANGED <<todo, exitCode, fatalIn>>
    /\ UNCHANGED <<logVars, removals, jmxFiles, jmxFile, resultFile, debugFile,
                   launched, runErr, jmxDoc, threadCount, statDoc, stats, statsErr>>

\* getRDebugFilename (134-149), from the scanned token
DebugFilename(tok) ==
    Join(debugDir, SuffixedName(TrimSpace(tok), <<"Debug_">>, ExtLog))

getRDebugFilename ==
    /\ Running
    /\ pc = "debug"
    /\ todo = << >>
    /\ steps' = Append(steps, "debug")
    /\ \E input \in PromptInputs :
         LET tok == Scanln(input).tok
         IN  /\ Consume(input, TrimSpace(tok))
             /\ debugFile' = DebugFilename(tok)
    /\ pc' = "run"
    /\ UNCHANGED <<todo, exitCode, fatalIn, fs, logVars, faults, removals,
                   jmxFiles, jmxFile, resultFile, reportFolder, launched, runErr,
                   jmxDoc, threadCount, statDoc, stats, statsErr>>

\* ------------------------------------------------------- parseThreadCount (152-178)
\* The result is [count, log]: the value returned and the messages logged.
parseThreadCount(doc) ==
    IF doc.state = "unreadable" THEN [count |-> 0, log |-> <<MsgReadJmxFailed>>]
    ELSE IF doc.state = "bad_xml" THEN [count |-> 0, log |-> <<MsgParseXmlFailed>>]
    ELSE IF doc.state = "no_node" THEN [count |-> 0, log |-> <<MsgNoThreadCount>>]
    ELSE LET n == Atoi(doc.text)
         IN  IF ~n.ok THEN [count |-> 0, log |-> <<MsgAtoiThreadFailed>>]
             ELSE [count |-> n.val, log |-> << >>]

\* ------------------------------------------------------- parseStatistics (180-211)
IntFields == {"sampleCount", "errorCount"}

\* json.Unmarshal into Statistics: a missing member leaves the zero value, an
\* integer field refuses a literal with a fraction, every field refuses a
\* string.  The result is [err, total].
Unmarshal(doc) ==
    LET total == IF doc.hasTotal THEN doc.total ELSE << >>
        present == DOMAIN total \cap StatKeys
        bad == { k \in present :
                   \/ total[k].t = "str"
                   \/ k \in IntFields /\ total[k].t # "int" }
        field(k) ==
            IF k \in present /\ k \notin bad
            THEN IF k \in IntFields THEN total[k].h \div 100 ELSE total[k].h
            ELSE 0
    IN  [err |-> IF doc.state = "malformed" THEN "syntax"
                 ELSE IF bad # {} THEN "type" ELSE "none",
         total |-> [SampleCount |-> field("sampleCount"),
                    ErrorPct |-> field("errorPct"),
                    MeanResTime |-> field("meanResTime"),
                    Throughput |-> field("throughput"),
                    Errorcount |-> field("errorCount")]]

\* The map built at 202-208.
StatMap(t) ==
    [sampleCount |-> t.SampleCount,
     errorPct |-> t.ErrorPct,
     meanResTime |-> t.MeanResTime,
     throughput |-> t.Throughput,
     Errorcount |-> t.Errorcount]

\* The result is [err, result]; a nil map is the empty function.
parseStatistics(doc) ==
    IF doc.state = "missing" THEN [err |-> "read", result |-> << >>]
    ELSE LET u == Unmarshal(doc)
         IN  IF u.err # "none" THEN [err |-> u.err, result |-> << >>]
             ELSE [err |-> "none", result |-> StatMap(u.total)]

\* ------------------------------------------------------- runJMeter (213-252)
CmdArgs(jmx, result, report, debug) ==
    << <<"jmeter">>, <<"-n">>, <<"-t">>, jmx, <<"-l">>, result, <<"-e">>, <<"-o">>,
       report, <<"-j">>, debug >>

\* strings.Join(args, " ")
RECURSIVE JoinArgs(_)
JoinArgs(args) ==
    IF Len(args) = 1 THEN Head(args)
    ELSE Head(args) \o <<Space>> \o JoinArgs(Tail(args))

\* The block logged at 241-248.
StatBlock(count, m) ==
    << MsgStatHeader,
       MsgThreads(count),
       MsgErrorPct(m["errorPct"]),
       MsgThroughput(m["throughput"]),
       MsgMeanRes(m["meanResTime"]),
       MsgSamples(m["sampleCount"]),
       MsgErrors(m["Errorcount"]),
       MsgStatFooter >>

\* 214-218: the two opening log lines
runBegin ==
    /\ Running
    /\ pc = "run"
    /\ todo = << >>
    /\ steps' = Append(steps, "run")
    /\ todo' = <<MsgCmdBegin, JoinArgs(CmdArgs(jmxFile, resultFile, reportFolder, debugFile))>>
    /\ pc' = "cmd"
    /\ UNCHANGED <<exitCode, fatalIn, fs, logVars, faults, removals, inputVars,
                   progVars>>

\* 225-235: cmd.Run and the line for its outcome
cmdRun ==
    /\ Running
    /\ pc = "cmd"
    /\ todo = << >>
    /\ steps' = Append(steps, "launch")
    /\ launched' = launched + 1
    /\ \E err \in {"none", "launch_failed", "exit_status"} :
         /\ runErr' = err
         /\ IF err # "none"
            THEN /\ todo' = <<MsgCmdFailed>>
                 /\ pc' = "return"
            ELSE /\ todo' = <<MsgCmdOk>>
                 /\ pc' = "threads"
    /\ UNCHANGED <<exitCode, fatalIn, fs, logVars, faults, removals, inputVars,
                   jmxFiles, jmxFile, resultFile, reportFolder, debugFile,
                   jmxDoc, threadCount, statDoc, stats, statsErr>>

\* 237: threadCount := parseThreadCount(jmxFile)
runThreadCount ==
    /\ Running
    /\ pc = "threads"
    /\ todo = << >>
    /\ \E doc \in JmxDocs :
         LET r == parseThreadCount(doc)
         IN  /\ jmxDoc' = doc
             /\ threadCount' = r.count
             /\ todo' = r.log
    /\ pc' = "stats"
    /\ UNCHANGED <<exitCode, fatalIn, fs, logVars, faults, removals, inputVars,
                   steps, jmxFiles, jmxFile, resultFile, reportFolder, debugFile,
                   launched, runErr, statDoc, stats, statsErr>>

\* 238-251: stats, err := parseStatistics(reportFolder) and what is logged for it
runStatistics ==
    /\ Running
    /\ pc = "stats"
    /\ todo = << >>
    /\ \E doc \in StatDocs :
         LET r == parseStatistics(doc)
         IN  /\ statDoc' = doc
             /\ stats' = r.result
             /\ statsErr' = r.err
             /\ todo' = IF r.err = "none" THEN StatBlock(threadCount, r.result)
                        ELSE <<MsgParseStatFailed>>
    /\ pc' = "return"
    /\ UNCHANGED <<exitCode, fatalIn, fs, logVars, faults, removals, inputVars,
                   steps, jmxFiles, jmxFile, resultFile, reportFolder, debugFile,
                   launched, runErr, jmxDoc, threadCount>>

\* runJMeter and main return: the process ends with status 0
mainReturn ==
    /\ Running
    /\ pc = "return"
    /\ todo = << >>
    /\ pc' = "done"
    /\ exitCode' = 0
    /\ UNCHANGED <<todo, fatalIn, fs, logVars, faults, removals, inputVars,
                   steps, progVars>>

Next ==
    \/ MainEnsureDir
    \/ listJMXFiles
    \/ osExit
    \/ selectJMXFile
    \/ getResultFilename
    \/ getReportFolder
    \/ getRDebugFilename
    \/ runBegin
    \/ cmdRun
    \/ runThreadCount
    \/ runStatistics
    \/ mainReturn
    \/ writeLog
    \/ EnvRemoveDebug

Spec == Init /\ [][Next]_vars

\* The tool alone: nothing outside it touches the Debug directory.
NextInput ==
    \/ MainEnsureDir
    \/ listJMXFiles
    \/ osExit
    \/ selectJMXFile
    \/ getResultFilename
    \/ getReportFolder
    \/ getRDebugFilename
    \/ runBegin
    \/ cmdRun
    \/ runThreadCount
    \/ runStatistics
    \/ mainReturn
    \/ writeLog

SpecInput == InitInput /\ [][NextInput]_vars

\* ------------------------------------------------------- the logger alone
\* Any caller of writeLog: a message is handed over, writeLog runs.
LogMsgs == {MsgCmdBegin, MsgNoJmx, MsgInvalidChoice(<<"x">>)}

InitLog ==
    /\ Start
    /\ pc = "caller"
    /\ fs \in { f \in [Paths -> Kinds] : f["Reporter"] = "dir" /\ f["Jtl"] = "dir"
                                          /\ f["folder"] = "dir" }
    /\ logfile \in (IF fs["Debug"] = "dir" THEN {<< >>, OldLog} ELSE {<< >>})
    /\ faults = MaxIOFailures
    /\ removals = MaxEnvRemovals
    /\ lines = {}
    /\ dir = << >>

callWriteLog ==
    /\ Running
    /\ todo = << >>
    /\ Len(calls) < MaxCalls
    /\ \E msg \in LogMsgs : todo' = <<msg>>
    /\ UNCHANGED <<pc, exitCode, fatalIn, fs, logVars, faults, removals, inputVars,
                   steps, progVars>>

NextLog == callWriteLog \/ writeLog \/ EnvRemoveDebug

SpecLog == InitLog /\ [][NextLog]_vars

\* ------------------------------------------------------- helpers of the properties
InSeq(m, seq) == \E i \in 1..Len(seq) : seq[i] = m
Count(m, seq) == Cardinality({ i \in 1..Len(seq) : seq[i] = m })
Contains(block, seq) ==
    \E i \in 0..(Len(seq) - Len(block)) : SubSeq(seq, i + 1, i + Len(block)) = block
Terminated == pc \in {"done", "exited"}
\* the line in front of prompt k, without its newline
LineAt(k) == SubSeq(offered[k], 1, Len(offered[k]) - 1)

\* ------------------------------------------------------- C1
\* C1: no failure inside writeLog (creating Debug, opening or writing
\* pmeter.log) terminates the process: writeLog always returns to its caller.
C1_LoggingNeverAborts == fatalIn # "writeLog"

\* ------------------------------------------------------- C9
\* A step of the tool, as opposed to the outside removal of Debug.
ToolStep == removals' = removals

\* C9 as stated: every writeLog call either appends exactly one whole line
\* "[timestamp] message" to pmeter.log or leaves the file unchanged.
C9_WholeLineOrNothing ==
    [][ToolStep =>
         \/ logfile' = logfile
         \/ todo # << >> /\ logfile' = logfile \o LogEntry(Head(todo))]_vars

\* C9 amended: under the tool pmeter.log only grows at its end.  A writeLog
\* call appends the whole line "[timestamp] message" when it succeeds, and
\* otherwise nothing or a leading part of that line (a write that fails part
\* way); no other step changes the file; earlier content is never truncated
\* or rewritten.
C9_AppendOnly ==
    [][ToolStep =>
         /\ IsPrefix(logfile, logfile')
         /\ logfile' # logfile =>
              /\ todo # << >>
              /\ calls' = Append(calls, Head(todo))
              /\ \E n \in 1..Len(LogEntry(Head(todo))) :
                   logfile' = logfile \o SubSeq(LogEntry(Head(todo)), 1, n)
         /\ (calls' # calls /\ logOutcome' = "ok") =>
              logfile' = logfile \o LogEntry(Head(todo))
         /\ (calls' # calls /\ logOutcome' \in {"open_failed", "fatal"}) =>
              logfile' = logfile]_vars

\* An old line is still in front of what two later calls appended, the
\* latest of them a whole line.
C9_Witness ==
    /\ Len(calls) >= 2
    /\ logOutcome = "ok"
    /\ IsPrefix(OldLog, logfile)
    /\ Len(logfile) > Len(OldLog) + Len(LogEntry(calls[Len(calls)]))

\* ------------------------------------------------------- C2
\* C2: the exit status is 0 when main returns and in every execution in
\* which jmeter failed to launch or exited non-zero; it is 1 when the
\* directory listing failed, when no .jmx file was found and when the file
\* selection was invalid.
C2_ExitStatus ==
    Terminated =>
        /\ pc = "done" => exitCode = 0
        /\ (launched > 0 /\ runErr # "none") => exitCode = 0
        /\ fatalIn \in {"listJMXFiles", "selectJMXFile"} => exitCode = 1

\* ------------------------------------------------------- C3
\* C3: the k-th prompt reads exactly the k-th line typed: it finds that
\* whole line in front of it, goes on with that line trimmed, and leaves
\* nothing of it on standard input for a later prompt.
C3_OneLinePerPrompt ==
    /\ Len(typed) = Len(answers)
    /\ stdin = << >>
    /\ \A k \in 1..Len(answers) :
         /\ offered[k] = typed[k] \o <<NL>>
         /\ answers[k] = TrimSpace(typed[k])

\* ------------------------------------------------------- C4
\* C4: once the selection prompt has read its line: if the line is an integer
\* i with 1 <= i <= n, the i-th listed file is selected; otherwise the
\* condition is logged, the process exits with a non-zero status, no later
\* prompt is issued and jmeter is not launched.
C4_FileSelection ==
    Len(answers) >= 1 =>
        LET line == TrimSpace(LineAt(1))
            i == Atoi(line)
        IN  IF i.ok /\ i.val >= 1 /\ i.val <= Len(jmxFiles)
            THEN /\ jmxFile = jmxFiles[i.val]
                 /\ pc # "select_exit"
                 /\ fatalIn # "selectJMXFile"
            ELSE /\ pc = "select_exit" \/ (pc = "exited" /\ fatalIn = "selectJMXFile")
                 /\ \E m \in 1..Len(todo \o calls) :
                      Head((todo \o calls)[m]) = "invalid_file_number: "
                 /\ pc = "exited" => exitCode = 1
                 /\ Len(answers) = 1
                 /\ launched = 0

\* ------------------------------------------------------- C5
\* Whether a statistics.json is well formed: a Total object with the five
\* members, the counts integers, the others numbers.
WellFormed(doc) ==
    /\ doc.state = "json"
    /\ doc.hasTotal
    /\ DOMAIN doc.total = StatKeys
    /\ \A k \in StatKeys :
         doc.total[k].t # "str" /\ (k \in IntFields => doc.total[k].t = "int")

\* The value of a member as the Statistics Summary holds it.
MemberValue(doc, k) ==
    IF k \in IntFields THEN doc.total[k].h \div 100 ELSE doc.total[k].h

\* C5: for a well-formed statistics.json the reader returns exactly the five
\* values of Total under the names sampleCount, errorPct, meanResTime,
\* throughput and errorCount; for a missing or malformed file it returns an
\* error and no map.
C5_StatisticsReader ==
    statDoc # NoDoc =>
        /\ WellFormed(statDoc) =>
             /\ statsErr = "none"
             /\ DOMAIN stats = StatKeys
             /\ \A k \in StatKeys : stats[k] = MemberValue(statDoc, k)
        /\ statDoc.state \in {"missing", "malformed"} =>
             /\ statsErr # "none"
             /\ stats = << >>

\* ------------------------------------------------------- C6
\* The path the result-filename rule names for a line.
ExpectedResult(line) ==
    LET name == TrimSpace(line)
    IN  jtlDir \o <<Slash>> \o
        (IF name = << >> THEN <<"result_">> \o getTimestamp \o ExtJtl
         ELSE IF HasSuffix(name, ExtJtl) THEN name
         ELSE name \o ExtJtl)

\* C6: once the result-filename prompt has read its line: a blank line gives
\* Jtl/result_<timestamp>.jtl, a line not ending in .jtl gives the line with
\* .jtl appended once, a line ending in .jtl is unchanged; the path lies
\* under Jtl and ends in .jtl; the suffix rule is idempotent.
C6_ResultFilename ==
    Len(answers) >= 2 =>
        LET name == TrimSpace(LineAt(2))
            once == SuffixedName(name, <<"result_">>, ExtJtl)
        IN  /\ resultFile = ExpectedResult(LineAt(2))
            /\ IsPrefix(jtlDir \o <<Slash>>, resultFile)
            /\ HasSuffix(resultFile, ExtJtl)
            /\ SuffixedName(once, <<"result_">>, ExtJtl) = once

\* ------------------------------------------------------- C7
MainOrder ==
    <<"ensureReport", "ensureJtl", "ensureDebug", "list", "select", "result",
      "report", "debug", "run", "launch">>

\* C7: the steps of main occur in the fixed order; the report folder exists
\* on disk once its prompt has returned; jmeter is launched at most once,
\* only after all four prompts, and never in an execution that left through
\* a fatal exit of the scan or of the selection.
C7_Ordering ==
    /\ IsPrefix(steps, MainOrder)
    /\ launched <= 1
    /\ launched = 1 => Len(answers) = 4 /\ InSeq("debug", steps)
    /\ fatalIn \in {"listJMXFiles", "selectJMXFile", "ensureDir"} => launched = 0
    /\ reportFolder # << >> => fs["folder"] = "dir"

\* ------------------------------------------------------- C8
BlockLines(seq) ==
    { i \in 1..Len(seq) :
        \/ seq[i] \in {MsgStatHeader, MsgStatFooter}
        \/ Head(seq[i]) \in {"threads: ", "error_pct: ", "throughput: ",
                             "mean_res: ", "samples: ", "errors: "} }

\* C8: for a run of runJMeter that is over (the process has ended): exactly
\* one of the failure line and the success line was logged; after a failed
\* run neither the extractor nor the reader ran and no statistics line was
\* logged; after a successful run either the complete statistics block or the
\* parse-failure line was logged, never both and never a part of the block.
C8_RunnerOutcomes ==
    (Terminated /\ launched = 1) =>
        /\ Count(MsgCmdFailed, calls) + Count(MsgCmdOk, calls) = 1
        /\ runErr # "none" =>
             /\ InSeq(MsgCmdFailed, calls)
             /\ jmxDoc = NoDoc /\ statDoc = NoDoc
             /\ BlockLines(calls) = {}
             /\ ~InSeq(MsgParseStatFailed, calls)
        /\ runErr = "none" =>
             /\ InSeq(MsgCmdOk, calls)
             /\ \/ /\ statDoc # NoDoc /\ statsErr = "none"
                   /\ Contains(StatBlock(threadCount, stats), calls)
                   /\ Cardinality(BlockLines(calls)) = Len(StatBlock(threadCount, stats))
                   /\ ~InSeq(MsgParseStatFailed, calls)
                \/ /\ statDoc # NoDoc /\ statsErr # "none"
                   /\ Count(MsgParseStatFailed, calls) = 1
                   /\ BlockLines(calls) = {}

\* ------------------------------------------------------- C10
ThreadCause(doc) ==
    CASE doc.state = "unreadable" -> MsgReadJmxFailed
      [] doc.state = "bad_xml" -> MsgParseXmlFailed
      [] doc.state = "no_node" -> MsgNoThreadCount
      [] OTHER -> MsgAtoiThreadFailed

ThreadFailure(doc) == doc.state # "node" \/ ~Atoi(doc.text).ok

\* C10: once the run is over after a successful jmeter run: the extractor
\* returned 0 and logged the cause on a failure, and the parsed integer
\* otherwise; and whether it failed or not, the statistics block (with that
\* thread count) or the parse-failure line was logged.
C10_ThreadCount ==
    (Terminated /\ jmxDoc # NoDoc) =>
        /\ IF ThreadFailure(jmxDoc)
           THEN threadCount = 0 /\ InSeq(ThreadCause(jmxDoc), calls)
           ELSE threadCount = Atoi(jmxDoc.text).val
        /\ statDoc # NoDoc
        /\ IF statsErr = "none"
           THEN /\ InSeq(MsgThreads(threadCount), calls)
                /\ Contains(StatBlock(threadCount, stats), calls)
           ELSE InSeq(MsgParseStatFailed, calls)
====
